---- MODULE Spec2Model ----
(***************************************************************************)
(* Model of the WAIO crawler tracker's extraction engine:                  *)
(*   backend/extractors.py      HeuristicExtractor, WAIOExtractor          *)
(*   backend/bot_preferences.py BOT_PROFILES, get_scoring_modifier         *)
(*   backend/metrics.py         ExtractionResult, ComparisonResult         *)
(*   backend/main.py            run_benchmark                              *)
(*   backend/bot_factory.py     BotFactory                                 *)
(* Strings are TLA+ strings, Optional[str] is <<>> (None) or <<s>>,        *)
(* floats are exact rationals <<numerator, denominator>> in seconds.       *)
(***************************************************************************)
EXTENDS Integers, Sequences, FiniteSets, TLC

VARIABLES
    op,               \* which entry point the request calls
    html_content,     \* the document handed to the extractor
    baseline_time,    \* Optional[float] argument of WAIOExtractor.extract
    bot_type,         \* consumer identity token (str)
    simulation_mode,  \* comparison mode token (str)
    found_attributes, \* argument of a direct get_scoring_modifier call
    pc,               \* position of the call
    result,           \* the ExtractionResult being built / returned
    pool,             \* candidate pools of WAIOExtractor.extract (after selection: sorted)
    reasoning,        \* field -> winning candidate, for the report
    cognitive_overhead, \* timer.elapsed of the Phase 1 scan
    found_attrs_map,  \* the data-ai-* attributes collected for the preference match
    found_via_waio,   \* n, the number of fields resolved via structured selection
    remaining_effort_ratio, \* Optional: the ratio used at line 254
    formula_time,     \* Optional: simulated_time as assigned at line 230/254/271
    simulated_time,   \* Optional: the returned time
    modifier_ret,     \* Optional: value returned by a direct get_scoring_modifier call
    outcome,          \* "pending", "returned" or "raised"
    comparison,       \* the ComparisonResult that to_dict serialises
    derived,          \* the derived metrics to_dict has read so far (name, value)
    calls,            \* the extraction calls that run concurrently: arguments, position, return
    frames,           \* the locals of those calls (result, pool, reasoning, timings)
    profiles,         \* the process-wide preference profile table
    fault,            \* the statement of the Phase 1 try block that raises in this call
    benchmark,        \* the run_benchmark handler: its request, position and response
    bot_factory,      \* the BotFactory singleton: _playwright and _browser
    fetches,          \* the fetch_page calls in progress on the factory: one task each
    started           \* the Playwright runtimes started and the browsers launched so far

vars == <<op, html_content, baseline_time, bot_type, simulation_mode, found_attributes,
          pc, result, pool, reasoning, cognitive_overhead, found_attrs_map, found_via_waio,
          remaining_effort_ratio, formula_time, simulated_time, modifier_ret, outcome,
          comparison, derived, calls, frames, profiles, fault,
          benchmark, bot_factory, fetches, started>>

-----------------------------------------------------------------------------
(* Bounds of the explored inputs *)

\* longest document (annotated/body elements) explored under the default arguments
MaxElems == 2
\* longest document explored under every combination of arguments
MaxArgElems == 1
\* largest found-attribute map passed to a direct get_scoring_modifier call
MaxFound == 2
\* longest document explored for the containment scopes
MaxScopeElems == 3
\* number of extraction calls that run concurrently
MaxCalls == 2
\* fetch_page calls in progress at the same time on the one BotFactory
MaxFetches == 2

-----------------------------------------------------------------------------
(* Python str helpers *)

None == <<>>
Some(v) == <<v>>
\* Python truthiness of an Optional[str]
Truthy(o) == o # None /\ o[1] # ""

UpperLetters == "ABCDEFGHIJKLMNOPQRSTUVWXYZ"
LowerLetters == "abcdefghijklmnopqrstuvwxyz"

\* the letters of one alphabet mapped to those of the other, by position
CaseTable(from, to) ==
    [c \in {SubSeq(from, i, i) : i \in 1..Len(from)} |->
        LET i == CHOOSE j \in 1..Len(from) : SubSeq(from, j, j) = c
        IN  SubSeq(to, i, i)]

ToLower == CaseTable(UpperLetters, LowerLetters)
ToUpper == CaseTable(LowerLetters, UpperLetters)

LowerChar(c) == IF c \in DOMAIN ToLower THEN ToLower[c] ELSE c

RECURSIVE Lower(_)
Lower(s) ==
    IF s = "" THEN ""
    ELSE LowerChar(SubSeq(s, 1, 1)) \o Lower(SubSeq(s, 2, Len(s)))

\* needle in hay
Contains(hay, needle) ==
    \E i \in 1..(Len(hay) - Len(needle) + 1) : SubSeq(hay, i, i + Len(needle) - 1) = needle

StartsWith(s, prefix) ==
    Len(s) >= Len(prefix) /\ SubSeq(s, 1, Len(prefix)) = prefix

IsSpace(c) == c = " "

RECURSIVE LStrip(_)
LStrip(s) ==
    IF s # "" /\ IsSpace(SubSeq(s, 1, 1)) THEN LStrip(SubSeq(s, 2, Len(s))) ELSE s

RECURSIVE RStrip(_)
RStrip(s) ==
    IF s # "" /\ IsSpace(SubSeq(s, Len(s), Len(s))) THEN RStrip(SubSeq(s, 1, Len(s) - 1)) ELSE s

Strip(s) == RStrip(LStrip(s))

\* s[:n]
Prefix(s, n) == SubSeq(s, 1, IF Len(s) < n THEN Len(s) ELSE n)

\* " ".join(strs)
RECURSIVE JoinSpace(_)
JoinSpace(strs) ==
    IF strs = <<>> THEN ""
    ELSE IF Len(strs) = 1 THEN strs[1]
    ELSE strs[1] \o " " \o JoinSpace(Tail(strs))

-----------------------------------------------------------------------------
(* Exact arithmetic standing for Python floats *)

RECURSIVE GCD(_, _)
GCD(a, b) == IF b = 0 THEN a ELSE GCD(b, a % b)

Abs(x) == IF x < 0 THEN -x ELSE x

\* the rational n/d (d # 0), in lowest terms with a positive denominator
Rat(n, d) ==
    LET g == GCD(Abs(n), Abs(d))
        s == IF d < 0 THEN -1 ELSE 1
    IN  <<(s * n) \div g, (s * d) \div g>>

\* the operands are reduced before they are multiplied, so that products stay small
RAdd(x, y) ==
    LET g == GCD(x[2], y[2])
    IN  Rat(x[1] * (y[2] \div g) + y[1] * (x[2] \div g), (x[2] \div g) * y[2])
RNeg(x) == <<-x[1], x[2]>>
RSub(x, y) == RAdd(x, RNeg(y))
RMul(x, y) ==
    LET a == Rat(x[1], y[2])
        b == Rat(y[1], x[2])
    IN  Rat(a[1] * b[1], a[2] * b[2])
RDiv(x, y) == RMul(x, Rat(y[2], y[1]))
RLess(x, y) ==
    LET g == GCD(x[2], y[2])
    IN  x[1] * (y[2] \div g) < y[1] * (x[2] \div g)
RLeq(x, y) == ~RLess(y, x)
\* Python max(a, b): b only when b > a
RMax(a, b) == IF RLess(a, b) THEN b ELSE a

\* u microseconds, in seconds
Micros(u) == Rat(u, 1000000)

-----------------------------------------------------------------------------
(* Documents *)

Fields == <<"title", "summary", "main_content">>
FieldSet == {"title", "summary", "main_content"}

\* An element: tag, attributes in source order (<<name, value>> pairs), own text.
Kind(tag, attrs, text) == [tag |-> tag, attrs |-> attrs, text |-> text]

ElementKinds == {
    Kind("h1",   << <<"data-ai-title", "Alpha">> >>, "Heading"),
    Kind("div",  << <<"data-ai-title", "Beta">>, <<"data-importance", "critical">> >>, ""),
    Kind("div",  << <<"data-ai-entity-type", "Title">> >>, "Entity"),
    Kind("main", << >>, ""),
    Kind("div",  << <<"data-importance", "critical">> >>, ""),
    Kind("div",  << <<"data-ai-title", " ">> >>, ""),
    Kind("div",  << <<"data-ai-title", "Gamma">>, <<"data-ai-summary", "Sum">> >>, ""),
    Kind("div",  << <<"data-ai-title", "Delta">>, <<"data-ai-description", "Desc">>,
                    <<"data-ai-content", "Body">> >>, ""),
    Kind("div",  << <<"data-ai-entity-type", "FAQPage">> >>, ""),
    Kind("div",  << <<"data-ai-article", "Story">> >>, "") }

\* the ancestors of element i in a sequence of parent indices (0 is the root)
RECURSIVE Ancestors(_, _)
Ancestors(parents, i) ==
    IF i = 0 \/ parents[i] = 0 THEN {}
    ELSE {parents[i]} \cup Ancestors(parents, parents[i])

\* parent indices that list the elements in document (pre-)order
PreOrder(parents) ==
    \A i \in 1..Len(parents) :
        /\ parents[i] \in 0..(i - 1)
        /\ i > 1 => parents[i] \in {0, i - 1} \cup Ancestors(parents, i - 1)

ParentSeqs(n) == {p \in [1..n -> 0..n] : PreOrder(p)}

\* the element trees of exactly n elements
Trees(n) ==
    {[i \in 1..n |-> [tag |-> k[i].tag, attrs |-> k[i].attrs, text |-> k[i].text,
                      parent |-> p[i]]] : k \in [1..n -> ElementKinds], p \in ParentSeqs(n)}

TreesUpTo(n) == UNION {Trees(m) : m \in 0..n}

NoHead == [og_title |-> None, tw_title |-> None, title_tag |-> None,
           og_desc |-> None, meta_desc |-> None]

\* head: the <head> metadata the baseline extractor reads;
\* extracted: what the delegated boilerplate extraction returns for the document
Pages == {
    [head |-> NoHead, extracted |-> None],
    [head |-> NoHead, extracted |-> Some("Body text")],
    [head |-> [og_title |-> None, tw_title |-> Some(""), title_tag |-> Some(" Page "),
               og_desc |-> Some("About"), meta_desc |-> None],
     extracted |-> Some("Body text")] }

Htmls(n) == {[head |-> p.head, extracted |-> p.extracted, elems |-> t] :
                p \in Pages, t \in TreesUpTo(n)}

-----------------------------------------------------------------------------
(* Document Tree Adapter: what lxml / BeautifulSoup expose of a document *)

\* attrs.get(name)
AttrGet(attrs, name) ==
    IF \E i \in 1..Len(attrs) : attrs[i][1] = name
    THEN Some(attrs[CHOOSE i \in 1..Len(attrs) : attrs[i][1] = name][2])
    ELSE None

\* name in attrs
HasAttr(attrs, name) == \E i \in 1..Len(attrs) : attrs[i][1] = name

\* c.iter(): the element itself and its descendants
Iter(elems, c) ==
    {c} \cup {i \in 1..Len(elems) :
                 c \in Ancestors([j \in 1..Len(elems) |-> elems[j].parent], i)}

\* element.text_content(): the text of the element and of its descendants, in document order
RECURSIVE ConcatText(_, _, _)
ConcatText(elems, members, i) ==
    IF i > Len(elems) THEN ""
    ELSE (IF i \in members THEN elems[i].text ELSE "") \o ConcatText(elems, members, i + 1)

TextContent(elems, i) == ConcatText(elems, Iter(elems, i), 1)

\* tag.get_text(strip=True): the stripped text pieces, joined
RECURSIVE ConcatStripped(_, _, _)
ConcatStripped(elems, members, i) ==
    IF i > Len(elems) THEN ""
    ELSE (IF i \in members THEN Strip(elems[i].text) ELSE "")
         \o ConcatStripped(elems, members, i + 1)

GetTextStrip(elems, i) == ConcatStripped(elems, Iter(elems, i), 1)

\* lxml_html.fromstring raises on a document with nothing in it
ParseFails(html) ==
    /\ html.elems = <<>>
    /\ html.extracted = None
    /\ \A k \in DOMAIN html.head : html.head[k] = None

\* the indices i of 1..n that satisfy Test(i), in document order
RECURSIVE SelectIdx(_, _, _)
SelectIdx(n, i, S) ==
    IF i > n THEN <<>>
    ELSE (IF i \in S THEN <<i>> ELSE <<>>) \o SelectIdx(n, i + 1, S)

\* //*[@*[starts-with(name(), "data-ai-")]]
XPathDataAi(elems) ==
    SelectIdx(Len(elems), 1,
        {i \in 1..Len(elems) :
            \E a \in 1..Len(elems[i].attrs) : StartsWith(elems[i].attrs[a][1], "data-ai-")})

\* //*[@*[starts-with(name(), "data-ai-") or name()="data-importance"]]
XPathAnnotated(elems) ==
    SelectIdx(Len(elems), 1,
        {i \in 1..Len(elems) :
            \E a \in 1..Len(elems[i].attrs) :
                \/ StartsWith(elems[i].attrs[a][1], "data-ai-")
                \/ elems[i].attrs[a][1] = "data-importance"})

\* //main | //article | //*[@data-ai-entity-type="Main"] | //*[@data-ai-intent="article"]
XPathMainContainers(elems) ==
    {i \in 1..Len(elems) :
        \/ elems[i].tag \in {"main", "article"}
        \/ AttrGet(elems[i].attrs, "data-ai-entity-type") = Some("Main")
        \/ AttrGet(elems[i].attrs, "data-ai-intent") = Some("article")}

\* //*[@data-importance="critical"]
XPathCriticalContainers(elems) ==
    {i \in 1..Len(elems) : AttrGet(elems[i].attrs, "data-importance") = Some("critical")}

-----------------------------------------------------------------------------
(* metrics.py: ExtractionResult *)

\* a Python dict as the sequence of its <<key, value>> items, in insertion order
DictHas(d, k) == \E i \in 1..Len(d) : d[i][1] = k
DictSet(d, k, v) ==
    IF DictHas(d, k)
    THEN [i \in 1..Len(d) |-> IF d[i][1] = k THEN <<k, v>> ELSE d[i]]
    ELSE Append(d, <<k, v>>)
DictKeys(d) == [i \in 1..Len(d) |-> d[i][1]]
DictValues(d) == [i \in 1..Len(d) |-> d[i][2]]

NewExtractionResult ==
    [title |-> None, summary |-> None, main_content |-> None,
     waio_detected |-> FALSE, attributes_found |-> <<>>, sources |-> <<>>]

\* result.sources[f] = tag
SetSource(sources, f, tag) == (f :> tag) @@ sources

-----------------------------------------------------------------------------
(* extractors.py: HeuristicExtractor.extract *)

\* mutant of HeuristicTitle: twitter:title is tried before og:title
HeuristicTitleTwitterFirst(html) ==
    LET h  == html.head
        t1 == IF Truthy(h.tw_title) THEN h.tw_title ELSE None
        t2 == IF ~Truthy(t1) /\ Truthy(h.og_title) THEN h.og_title ELSE t1
        t3 == IF ~Truthy(t2) /\ h.title_tag # None THEN Some(Strip(h.title_tag[1])) ELSE t2
        h1 == {i \in 1..Len(html.elems) : html.elems[i].tag = "h1"}
        t4 == IF ~Truthy(t3) /\ h1 # {}
              THEN Some(GetTextStrip(html.elems, CHOOSE i \in h1 : \A j \in h1 : i <= j))
              ELSE t3
    IN  t4

\* title of lines 50-76
HeuristicTitle(html) ==
    LET h  == html.head
        t1 == IF Truthy(h.og_title) THEN h.og_title ELSE None
        t2 == IF ~Truthy(t1) /\ Truthy(h.tw_title) THEN h.tw_title ELSE t1
        t3 == IF ~Truthy(t2) /\ h.title_tag # None THEN Some(Strip(h.title_tag[1])) ELSE t2
        h1 == {i \in 1..Len(html.elems) : html.elems[i].tag = "h1"}
        t4 == IF ~Truthy(t3) /\ h1 # {}
              THEN Some(GetTextStrip(html.elems, CHOOSE i \in h1 : \A j \in h1 : i <= j))
              ELSE t3
    IN  t4

SummaryLimit == 200

HeuristicSummary(html, main_content) ==
    LET h  == html.head
        s1 == IF Truthy(h.og_desc) THEN h.og_desc ELSE None
        s2 == IF ~Truthy(s1) /\ Truthy(h.meta_desc) THEN h.meta_desc ELSE s1
        s3 == IF ~Truthy(s2) /\ Truthy(main_content)
              THEN Some(Strip(Prefix(main_content[1], SummaryLimit))
                        \o (IF Len(main_content[1]) > SummaryLimit THEN "..." ELSE ""))
              ELSE s2
    IN  s3

HeuristicWaioDetected(html) ==
    IF ParseFails(html) THEN FALSE ELSE Len(XPathDataAi(html.elems)) > 0

\* result.sources after the "Set sources" loop
HeuristicSources(r) ==
    [f \in {g \in FieldSet : Truthy(r[g])} |-> "heuristic"]

\* the ExtractionResult HeuristicExtractor.extract returns for a document
HeuristicResult(html) ==
    LET main_content == IF Truthy(html.extracted) THEN html.extracted ELSE None
        r == [NewExtractionResult EXCEPT
                 !.main_content = main_content,
                 !.title = HeuristicTitle(html),
                 !.summary = HeuristicSummary(html, main_content),
                 !.waio_detected = HeuristicWaioDetected(html)]
    IN  [r EXCEPT !.sources = HeuristicSources(r)]

-----------------------------------------------------------------------------
(* bot_preferences.py *)

SimulationModeValues == {"WAIO Theory", "Industry Consensus"}

BotTypeValues == {"GPTBot", "ClaudeBot", "ChatGPT-User", "Googlebot", "Google-Extended",
                  "Bingbot", "PerplexityBot", "YouBot", "MetaBot"}

BotPreferenceProfile(file_types, attributes) ==
    [file_types |-> file_types, attributes |-> attributes]

BOT_PROFILES ==
    [b \in BotTypeValues |->
        CASE b = "GPTBot" ->
                BotPreferenceProfile(<<"FAQPage", "Article", "Product">>,
                                     <<"mainEntity", "acceptedAnswer">>)
          [] b = "ClaudeBot" ->
                BotPreferenceProfile(<<"Article", "FAQPage", "Review">>,
                                     <<"author", "datePublished">>)
          [] b = "PerplexityBot" ->
                BotPreferenceProfile(<<"Article", "FAQPage", "Review">>,
                                     <<"citation", "breadcrumb">>)
          [] b = "Google-Extended" ->
                BotPreferenceProfile(<<"FAQPage", "Article", "Review", "Product">>, <<>>)
          [] b = "Bingbot" ->
                BotPreferenceProfile(<<"Product", "LocalBusiness", "Review">>,
                                     <<"offers", "price">>)
          [] OTHER -> BotPreferenceProfile(<<>>, <<>>)]

\* BOT_PROFILES.get(bot_type, BOT_PROFILES[BotType.GPTBOT])
ProfileOf(bot) ==
    IF bot \in DOMAIN BOT_PROFILES THEN BOT_PROFILES[bot] ELSE BOT_PROFILES["GPTBot"]

\* mutant of HasPreferredContent: the found values are not searched
HasPreferredContentKeysOnly(profile, found) ==
    LET found_keys == Lower(JoinSpace(DictKeys(found)))
    IN  \E i \in 1..Len(profile.file_types) :
            Contains(found_keys, Lower(profile.file_types[i]))

\* the has_preferred_content loop
HasPreferredContent(profile, found) ==
    LET found_keys   == Lower(JoinSpace(DictKeys(found)))
        found_values == Lower(JoinSpace(DictValues(found)))
    IN  \E i \in 1..Len(profile.file_types) :
            \/ Contains(found_keys, Lower(profile.file_types[i]))
            \/ Contains(found_values, Lower(profile.file_types[i]))

\* the body of get_scoring_modifier for the profile that the table lookup of line 96 gives
ScoringModifierOf(profile, mode, found) ==
    IF found = None THEN Rat(1, 1)
    ELSE LET has_preferred_content == HasPreferredContent(profile, found[1])
         IN  IF mode = "WAIO Theory"
             THEN IF has_preferred_content
                  THEN RMul(RMul(Rat(1, 1), Rat(12, 10)), Rat(14, 10))
                  ELSE RMul(Rat(1, 1), Rat(12, 10))
             ELSE IF mode = "Industry Consensus"
             THEN IF has_preferred_content
                  THEN RMul(Rat(1, 1), Rat(11, 10))
                  ELSE Rat(1, 1)
             ELSE Rat(1, 1)

\* get_scoring_modifier(bot_type, simulation_mode, found_attributes), found None or Some(dict)
get_scoring_modifier(bot, mode, found) == ScoringModifierOf(ProfileOf(bot), mode, found)

\* table.get(bot_type, table[BotType.GPTBOT]) on the table a concurrent call finds
ProfileIn(table, bot) == IF bot \in DOMAIN table THEN table[bot] ELSE table["GPTBot"]

-----------------------------------------------------------------------------
(* extractors.py: WAIOExtractor.extract, Phase 1 (cognitive scan) *)

SCORE_CRITICAL == 100
SCORE_MATCH_DIRECT == 100
SCORE_MATCH_ENTITY == 50
SCORE_SCOPE_MAIN == 50

MainElementsSet(elems) == UNION {Iter(elems, c) : c \in XPathMainContainers(elems)}
CriticalElementsSet(elems) == UNION {Iter(elems, c) : c \in XPathCriticalContainers(elems)}

\* mutant of BaseScore: the critical bonus is added once for the element's own attribute
\* and once more for its membership of the critical set
BaseScoreCriticalTwice(elems, i) ==
    (IF i \in MainElementsSet(elems) THEN SCORE_SCOPE_MAIN ELSE 0)
    + (IF AttrGet(elems[i].attrs, "data-importance") = Some("critical")
       THEN SCORE_CRITICAL ELSE 0)
    + (IF i \in CriticalElementsSet(elems) THEN SCORE_CRITICAL ELSE 0)

\* base_score of lines 172-175
BaseScore(elems, i) ==
    LET is_in_main  == i \in MainElementsSet(elems)
        is_critical == \/ AttrGet(elems[i].attrs, "data-importance") = Some("critical")
                       \/ i \in CriticalElementsSet(elems)
    IN  (IF is_in_main THEN SCORE_SCOPE_MAIN ELSE 0)
        + (IF is_critical THEN SCORE_CRITICAL ELSE 0)

\* get_val(attr_name)
GetVal(elems, i, attr_name) ==
    LET v == AttrGet(elems[i].attrs, attr_name)
    IN  IF Truthy(v) /\ Strip(v[1]) # "" THEN Strip(v[1])
        ELSE Strip(TextContent(elems, i))

Candidate(value, score, reason, i) ==
    [value |-> value, score |-> score, reason |-> reason, elem |-> i]

\* next(k for k in names if k in attrs)
FirstAttrIn(attrs, names) ==
    names[CHOOSE j \in 1..Len(names) :
            /\ HasAttr(attrs, names[j])
            /\ \A k \in 1..(j - 1) : ~HasAttr(attrs, names[k])]

EntityTypeHas(attrs, words) ==
    /\ HasAttr(attrs, "data-ai-entity-type")
    /\ \E w \in words : Contains(AttrGet(attrs, "data-ai-entity-type")[1], w)

\* the names and labels of the matching rules of one field
DirectAttrs(f) ==
    CASE f = "title"   -> <<"data-ai-title">>
      [] f = "summary" -> <<"data-ai-summary", "data-ai-description">>
      [] OTHER         -> <<"data-ai-content", "data-ai-main", "data-ai-article">>

EntityWords(f) ==
    CASE f = "title"   -> {"Title"}
      [] f = "summary" -> {"Summary", "Description"}
      [] OTHER         -> {"Article", "Main", "Content"}

EntityLabel(f) ==
    CASE f = "title"   -> "Entity Type match (Title)"
      [] f = "summary" -> "Entity Type match (Summary/Desc)"
      [] OTHER         -> "Entity Type match (Article/Main)"

\* mutant of CandidatesOf: `if` in place of `elif`, the entity-type rule is not pre-empted
CandidatesOfBothRules(elems, i, f) ==
    LET attrs == elems[i].attrs
        base  == BaseScore(elems, i)
    IN  (IF \E j \in 1..Len(DirectAttrs(f)) : HasAttr(attrs, DirectAttrs(f)[j])
         THEN <<Candidate(GetVal(elems, i, FirstAttrIn(attrs, DirectAttrs(f))),
                          base + SCORE_MATCH_DIRECT,
                          "Direct " \o FirstAttrIn(attrs, DirectAttrs(f)), i)>>
         ELSE <<>>)
        \o (IF EntityTypeHas(attrs, EntityWords(f))
            THEN <<Candidate(GetVal(elems, i, "data-ai-entity-type"),
                             base + SCORE_MATCH_ENTITY, EntityLabel(f), i)>>
            ELSE <<>>)

\* what element i appends to pool[f] (a sequence of at most one candidate)
CandidatesOf(elems, i, f) ==
    LET attrs  == elems[i].attrs
        base   == BaseScore(elems, i)
        direct == CASE f = "title"   -> <<"data-ai-title">>
                    [] f = "summary" -> <<"data-ai-summary", "data-ai-description">>
                    [] OTHER         -> <<"data-ai-content", "data-ai-main", "data-ai-article">>
        words  == CASE f = "title"   -> {"Title"}
                    [] f = "summary" -> {"Summary", "Description"}
                    [] OTHER         -> {"Article", "Main", "Content"}
        label  == CASE f = "title"   -> "Entity Type match (Title)"
                    [] f = "summary" -> "Entity Type match (Summary/Desc)"
                    [] OTHER         -> "Entity Type match (Article/Main)"
    IN  IF \E j \in 1..Len(direct) : HasAttr(attrs, direct[j])
        THEN LET attr == FirstAttrIn(attrs, direct)
             IN  <<Candidate(GetVal(elems, i, attr), base + SCORE_MATCH_DIRECT,
                             "Direct " \o attr, i)>>
        ELSE IF EntityTypeHas(attrs, words)
        THEN <<Candidate(GetVal(elems, i, "data-ai-entity-type"), base + SCORE_MATCH_ENTITY,
                         label, i)>>
        ELSE <<>>

\* pool[f] after the loop over all_ai_elements, in append (document) order
RECURSIVE PoolFrom(_, _, _, _)
PoolFrom(elems, annotated, k, f) ==
    IF k > Len(annotated) THEN <<>>
    ELSE CandidatesOf(elems, annotated[k], f) \o PoolFrom(elems, annotated, k + 1, f)

Candidates(elems, f) == PoolFrom(elems, XPathAnnotated(elems), 1, f)

\* mutant of InsertByScore: c is put in front of the candidates it ties with
InsertBeforeTies(sorted, c) ==
    LET k == Cardinality({i \in 1..Len(sorted) : sorted[i].score > c.score})
    IN  SubSeq(sorted, 1, k) \o <<c>> \o SubSeq(sorted, k + 1, Len(sorted))

\* inserts c behind the candidates of `sorted` that score at least as much
InsertByScore(sorted, c) ==
    LET k == Cardinality({i \in 1..Len(sorted) : sorted[i].score >= c.score})
    IN  SubSeq(sorted, 1, k) \o <<c>> \o SubSeq(sorted, k + 1, Len(sorted))

\* mutant of SortByScore: the pool is left in document order
NoSort(cands) == cands

\* pool[f].sort(key=lambda x: x[1], reverse=True): stable, descending by score
RECURSIVE SortByScore(_)
SortByScore(cands) ==
    IF cands = <<>> THEN <<>>
    ELSE InsertByScore(SortByScore(SubSeq(cands, 1, Len(cands) - 1)), cands[Len(cands)])

\* the state Phase 1 leaves: [result, pool, reasoning]
ScanOutcome(html, r0) ==
    IF ParseFails(html) \/ Len(XPathAnnotated(html.elems)) = 0
    THEN [result |-> r0,
          pool |-> [f \in FieldSet |-> <<>>],
          reasoning |-> <<>>]
    ELSE LET sorted == [f \in FieldSet |-> SortByScore(Candidates(html.elems, f))]
             won    == {f \in FieldSet : sorted[f] # <<>>}
         IN  [result |-> [r0 EXCEPT
                             !.waio_detected = TRUE,
                             !.title = IF "title" \in won
                                       THEN Some(sorted["title"][1].value) ELSE @,
                             !.summary = IF "summary" \in won
                                         THEN Some(sorted["summary"][1].value) ELSE @,
                             !.main_content = IF "main_content" \in won
                                              THEN Some(sorted["main_content"][1].value) ELSE @,
                             !.sources = [f \in won |-> "waio"]],
              pool |-> sorted,
              reasoning |-> [f \in won |-> sorted[f][1]]]

\* Where a try block of extract is left by an exception.  step names the statement that
\* raises: "parse" (155), "query" (156), "containers" (162-168), "scoring" (170-197, after
\* `done` elements were scored), "selection" (200-206, after `done` fields were handled),
\* "report" (279-288, after `done` entries were recorded); "none": nothing raises but the
\* parse of a document with nothing in it.
Fault(step, done) == [step |-> step, done |-> done]
NoFault == Fault("none", 0)

\* the try block is left through `except: pass`
Raises(html, f) ==
    \/ ParseFails(html)
    \/ f.step = "parse"
    \/ f.step = "query"
    \/ /\ Len(XPathAnnotated(html.elems)) > 0
       /\ \/ f.step = "containers"
          \/ f.step = "scoring" /\ f.done < Len(XPathAnnotated(html.elems))
          \/ f.step = "selection" /\ f.done < Len(Fields)

\* the state the try block leaves when it is left by an exception
InterruptedScan(html, r0, f) ==
    IF ParseFails(html) \/ f.step \in {"parse", "query"}
    THEN [result |-> r0, pool |-> [g \in FieldSet |-> <<>>], reasoning |-> <<>>]
    ELSE LET detected  == [r0 EXCEPT !.waio_detected = TRUE]
             annotated == XPathAnnotated(html.elems)
         IN  IF f.step = "containers"
             THEN [result |-> detected, pool |-> [g \in FieldSet |-> <<>>], reasoning |-> <<>>]
             ELSE IF f.step = "scoring"
             THEN [result |-> detected,
                   pool |-> [g \in FieldSet |->
                                PoolFrom(html.elems, SubSeq(annotated, 1, f.done), 1, g)],
                   reasoning |-> <<>>]
             ELSE LET handled == {Fields[i] : i \in 1..f.done}
                      cands   == [g \in FieldSet |-> Candidates(html.elems, g)]
                      sorted  == [g \in FieldSet |->
                                     IF g \in handled THEN SortByScore(cands[g]) ELSE cands[g]]
                      won     == {g \in handled : sorted[g] # <<>>}
                  IN  [result |-> [detected EXCEPT
                                      !.title = IF "title" \in won
                                                THEN Some(sorted["title"][1].value) ELSE @,
                                      !.summary = IF "summary" \in won
                                                  THEN Some(sorted["summary"][1].value) ELSE @,
                                      !.main_content = IF "main_content" \in won
                                                       THEN Some(sorted["main_content"][1].value)
                                                       ELSE @,
                                      !.sources = [g \in won |-> "waio"]],
                       pool |-> sorted,
                       reasoning |-> [g \in won |-> sorted[g][1]]]

\* the state Phase 1 leaves, whether its try block completes or not
Phase1(html, r0, f) ==
    IF Raises(html, f) THEN InterruptedScan(html, r0, f) ELSE ScanOutcome(html, r0)

-----------------------------------------------------------------------------
(* extractors.py: WAIOExtractor.extract, Phase 2 (cost simulation) *)

\* the items (k, v) of the data-ai-* attributes of the listed elements, in document order
RECURSIVE DataAiItems(_, _, _)
DataAiItems(elems, listed, k) ==
    IF k > Len(listed) THEN <<>>
    ELSE SelectSeq(elems[listed[k]].attrs, LAMBDA kv : StartsWith(kv[1], "data-ai-"))
         \o DataAiItems(elems, listed, k + 1)

\* found_attrs_map[v] = k over the items
RECURSIVE InvertInto(_, _)
InvertInto(d, items) ==
    IF items = <<>> THEN d
    ELSE InvertInto(DictSet(d, items[1][2], items[1][1]), Tail(items))

FoundAttrsMap(html, waio_detected) ==
    IF waio_detected /\ ~ParseFails(html)
    THEN InvertInto(<<>>, DataAiItems(html.elems, XPathDataAi(html.elems), 1))
    ELSE <<>>

\* sum(1 for s in result.sources.values() if s == 'waio')
FoundViaWaio(sources) == Cardinality({f \in DOMAIN sources : sources[f] = "waio"})

\* max(0.05, 1.0 - (n / 3.0) * 0.95)
BaseEffortRatio(n) ==
    RMax(Rat(5, 100), RSub(Rat(1, 1), RMul(RDiv(Rat(n, 1), Rat(3, 1)), Rat(95, 100))))

\* mutant of EffortRatio: the modifier multiplies the ratio instead of dividing it
EffortRatioMultiplied(n, bot, mode, found) ==
    IF bot \in BotTypeValues /\ mode \in SimulationModeValues
    THEN RMul(BaseEffortRatio(n), get_scoring_modifier(bot, mode, Some(found)))
    ELSE BaseEffortRatio(n)

\* remaining_effort_ratio after the try block of lines 243-252
EffortRatio(n, bot, mode, found) ==
    IF bot \in BotTypeValues /\ mode \in SimulationModeValues
    THEN RDiv(BaseEffortRatio(n), get_scoring_modifier(bot, mode, Some(found)))
    ELSE BaseEffortRatio(n)

\* mutant of OptionTime: option B is applied even when nothing was resolved
OptionTimeAlwaysProportional(n, baseline, ratio, overhead) ==
    RAdd(RMul(baseline, ratio), overhead)

\* simulated_time of lines 228-254: option A (no benefit) or option B (proportional)
OptionTime(n, baseline, ratio, overhead) ==
    IF n = 0 THEN baseline ELSE RAdd(RMul(baseline, ratio), overhead)

\* max(0.001, simulated_time)
FloorTime(t) == RMax(Rat(1, 1000), t)

\* lines 260-267: copy the missing fields that the baseline extractor resolved
RECURSIVE BackfillWarm(_, _, _)
BackfillWarm(r, h, fs) ==
    IF fs = <<>> THEN r
    ELSE LET f == Head(fs)
         IN  IF ~Truthy(r[f]) /\ Truthy(h[f])
             THEN BackfillWarm([r EXCEPT ![f] = h[f],
                                         !.sources = SetSource(r.sources, f, "heuristic")],
                               h, Tail(fs))
             ELSE BackfillWarm(r, h, Tail(fs))

\* lines 272-275: copy every missing field from the baseline extractor
RECURSIVE BackfillCold(_, _, _)
BackfillCold(r, h, fs) ==
    IF fs = <<>> THEN r
    ELSE LET f == Head(fs)
         IN  IF ~Truthy(r[f])
             THEN BackfillCold([r EXCEPT ![f] = h[f],
                                         !.sources = SetSource(r.sources, f, "heuristic")],
                               h, Tail(fs))
             ELSE BackfillCold(r, h, Tail(fs))

-----------------------------------------------------------------------------
(* extractors.py: WAIOExtractor.extract, Phase 3 (report) *)

Digits == "0123456789"

\* str(n) for n >= 0
RECURSIVE IntToStr(_)
IntToStr(n) ==
    IF n < 10 THEN SubSeq(Digits, n + 1, n + 1)
    ELSE IntToStr(n \div 10) \o SubSeq(Digits, (n % 10) + 1, (n % 10) + 1)

IsLetter(c) == c \in DOMAIN ToLower \/ c \in DOMAIN ToUpper

UpperChar(c) == IF c \in DOMAIN ToUpper THEN ToUpper[c] ELSE c

\* s.replace('_', ' ')
RECURSIVE ReplaceUnderscore(_)
ReplaceUnderscore(s) ==
    IF s = "" THEN ""
    ELSE (IF SubSeq(s, 1, 1) = "_" THEN " " ELSE SubSeq(s, 1, 1))
         \o ReplaceUnderscore(SubSeq(s, 2, Len(s)))

\* s.title(): a letter after a non-letter is upper-cased, any other letter lower-cased
RECURSIVE TitleFrom(_, _)
TitleFrom(s, prev) ==
    IF s = "" THEN ""
    ELSE LET c == SubSeq(s, 1, 1)
         IN  (IF IsLetter(prev) THEN LowerChar(c) ELSE UpperChar(c))
             \o TitleFrom(SubSeq(s, 2, Len(s)), c)

TitleCase(s) == TitleFrom(s, "")

\* the reasoning entries of result.attributes_found
RECURSIVE ReasonEntries(_, _, _)
ReasonEntries(d, won, fs) ==
    IF fs = <<>> THEN d
    ELSE LET f == Head(fs)
         IN  IF f \in DOMAIN won
             THEN ReasonEntries(
                      DictSet(d, "Selected " \o TitleCase(ReplaceUnderscore(f)) \o " via",
                              won[f].reason \o " (Score: " \o IntToStr(won[f].score) \o ")"),
                      won, Tail(fs))
             ELSE ReasonEntries(d, won, Tail(fs))

AttributeValueLimit == 100

\* the attribute entries: first occurrence of a key wins
RECURSIVE AttrEntries(_, _, _, _)
AttrEntries(d, elems, listed, k) ==
    IF k > Len(listed) THEN d
    ELSE LET e == elems[listed[k]]
             step(acc, kv) ==
                 LET ui_key == "<" \o e.tag \o "> " \o kv[1]
                 IN  IF (StartsWith(kv[1], "data-ai-") \/ kv[1] = "data-importance")
                        /\ ~DictHas(acc, ui_key)
                     THEN DictSet(acc, ui_key, Prefix(kv[2], AttributeValueLimit))
                     ELSE acc
             RECURSIVE fold(_, _)
             fold(acc, items) ==
                 IF items = <<>> THEN acc ELSE fold(step(acc, items[1]), Tail(items))
         IN  AttrEntries(fold(d, e.attrs), elems, listed, k + 1)

\* result.attributes_found after Phase 3
ReportEntries(html, won, d0) ==
    LET d1 == ReasonEntries(d0, won, Fields)
    IN  IF ParseFails(html) THEN d1
        ELSE AttrEntries(d1, html.elems, XPathAnnotated(html.elems), 1)

\* mutant of Phase3: the report also clears the provenance of the fields
Phase3ClearsSources(html, won, r, f) ==
    [r EXCEPT !.attributes_found = ReportEntries(html, won, @), !.sources = <<>>]

\* result after the try block of lines 278-289; when f.step = "report" the block is left
\* by an exception once f.done entries have been recorded, and `except: pass` keeps them
Phase3(html, won, r, f) ==
    LET full == ReportEntries(html, won, r.attributes_found)
        kept == IF f.step = "report" /\ f.done < Len(full)
                THEN SubSeq(full, 1, f.done)
                ELSE full
    IN  [r EXCEPT !.attributes_found = kept]

-----------------------------------------------------------------------------
(* metrics.py: the derived metrics of ExtractionResult and ComparisonResult *)

\* the outcome of a float expression: a value, or ZeroDivisionError raised
Value(v) == [raised |-> FALSE, value |-> v]
ZeroDivisionError == [raised |-> TRUE, value |-> Rat(0, 1)]

\* x / y on Python floats
PyDiv(x, y) == IF y[1] = 0 THEN ZeroDivisionError ELSE Value(RDiv(x, y))

\* (q) * k, where q is the outcome of a division
PyTimes(q, k) == IF q.raised THEN q ELSE Value(RMul(q.value, k))

\* self.sources.get(f)
SourcesGet(sources, f) == IF f \in DOMAIN sources THEN Some(sources[f]) ELSE None

\* mutant of integrity_score: every field with a provenance entry is counted
IntegrityScoreAnyProvenance(r) ==
    LET core_fields == Fields
        waio_fields == Cardinality({i \in 1..Len(core_fields) :
                                       SourcesGet(r.sources, core_fields[i]) # None})
    IN  PyTimes(PyDiv(Rat(waio_fields, 1), Rat(Len(core_fields), 1)), Rat(100, 1))

\* ExtractionResult.integrity_score
integrity_score(r) ==
    LET core_fields == Fields
        waio_fields == Cardinality({i \in 1..Len(core_fields) :
                                       SourcesGet(r.sources, core_fields[i]) = Some("waio")})
    IN  PyTimes(PyDiv(Rat(waio_fields, 1), Rat(Len(core_fields), 1)), Rat(100, 1))

BenchmarkMetrics(cognitive_time) == [cognitive_time |-> cognitive_time]

\* ComparisonResult(url, bot_type): both metric sets at 0.0, both extractions empty
NewComparisonResult ==
    [url |-> "", bot_type |-> "GPTBot",
     heuristic_metrics |-> BenchmarkMetrics(Rat(0, 1)),
     heuristic_extraction |-> NewExtractionResult,
     waio_metrics |-> BenchmarkMetrics(Rat(0, 1)),
     waio_extraction |-> NewExtractionResult]

\* mutant of cognitive_speedup: the guard tests the baseline time
CognitiveSpeedupGuardsBaseline(c) ==
    IF c.heuristic_metrics.cognitive_time = Rat(0, 1) THEN Value(Rat(0, 1))
    ELSE PyDiv(c.heuristic_metrics.cognitive_time, c.waio_metrics.cognitive_time)

\* ComparisonResult.cognitive_speedup
cognitive_speedup(c) ==
    IF c.waio_metrics.cognitive_time = Rat(0, 1) THEN Value(Rat(0, 1))
    ELSE PyDiv(c.heuristic_metrics.cognitive_time, c.waio_metrics.cognitive_time)

\* ComparisonResult.performance_gain_percent
performance_gain_percent(c) ==
    IF c.heuristic_metrics.cognitive_time = Rat(0, 1) THEN Value(Rat(0, 1))
    ELSE LET reduction == RSub(c.heuristic_metrics.cognitive_time,
                               c.waio_metrics.cognitive_time)
         IN  PyTimes(PyDiv(reduction, c.heuristic_metrics.cognitive_time), Rat(100, 1))

-----------------------------------------------------------------------------
(* The requests explored *)

\* timer.elapsed of the Phase 1 scan
ScanTimes == {Micros(10), Micros(2000)}
\* timer.elapsed of a baseline extraction
HeuristicTimes == {Micros(500), Micros(4000)}
\* baseline_time arguments
Baselines == {None, Some(Micros(600)), Some(Micros(3000))}
\* bot_type and simulation_mode tokens, known and unknown
BotInputs == {"GPTBot", "Googlebot", "FooBot"}
ModeInputs == {"WAIO Theory", "Industry Consensus", "Bogus Mode"}

FoundItems == {
    <<"data-ai-entity-type", "FAQPage">>,
    <<"data-ai-entity-type", "LocalBusiness">>,
    <<"Story", "data-ai-article">>,
    <<"Alpha", "data-ai-title">>,
    <<"our PRODUCT range", "data-ai-summary">>,
    <<"Arti", "data-ai-title">>,
    <<"cle", "data-ai-summary">> }

\* dicts of at most n items with distinct keys
FoundDicts(n) ==
    UNION {{d \in [1..m -> FoundItems] : \A i, j \in 1..m : i # j => d[i][1] # d[j][1]}
           : m \in 0..n}

FoundInputs == {None} \cup {Some(d) : d \in FoundDicts(MaxFound)}

NoHtml == [head |-> NoHead, extracted |-> None, elems |-> <<>>]

Fresh ==
    /\ pc = "start"
    /\ result = NewExtractionResult
    /\ pool = [f \in FieldSet |-> <<>>]
    /\ reasoning = <<>>
    /\ cognitive_overhead = None
    /\ found_attrs_map = <<>>
    /\ found_via_waio = 0
    /\ remaining_effort_ratio = None
    /\ formula_time = None
    /\ simulated_time = None
    /\ modifier_ret = None
    /\ outcome = "pending"

InitHeuristic ==
    /\ op = "heuristic"
    /\ html_content \in Htmls(MaxElems)
    /\ baseline_time = None
    /\ bot_type = "GPTBot"
    /\ simulation_mode = "WAIO Theory"
    /\ found_attributes = None

InitWaio ==
    /\ op = "waio"
    /\ \/ /\ html_content \in Htmls(MaxElems)
          /\ baseline_time = Some(Micros(3000))
          /\ bot_type = "GPTBot"
          /\ simulation_mode = "WAIO Theory"
       \/ /\ html_content \in Htmls(MaxArgElems)
          /\ baseline_time \in Baselines
          /\ bot_type \in BotInputs
          /\ simulation_mode \in ModeInputs
    /\ found_attributes = None

InitModifier ==
    /\ op = "modifier"
    /\ html_content = NoHtml
    /\ baseline_time = None
    /\ bot_type \in BotTypeValues
    /\ simulation_mode \in SimulationModeValues
    /\ found_attributes \in FoundInputs

\* the cognitive times a comparison record can hold: the 0.0 it is created with, or measured
CognitiveTimes == {Rat(0, 1), Micros(510), Micros(1000), Micros(3000)}

\* the provenance maps an ExtractionResult can hold
SourceMaps == UNION {[S -> {"waio", "heuristic"}] : S \in SUBSET FieldSet}

ComparisonResults ==
    {[NewComparisonResult EXCEPT
         !.heuristic_metrics = BenchmarkMetrics(h),
         !.waio_metrics = BenchmarkMetrics(w),
         !.waio_extraction = [NewExtractionResult EXCEPT !.sources = s]] :
        h \in CognitiveTimes, w \in CognitiveTimes, s \in SourceMaps}

\* no comparison record is being serialised
NoComparison == comparison = NewComparisonResult /\ derived = <<>>

\* no concurrent calls; the table is as the module defines it
NoCalls == calls = <<>> /\ frames = <<>> /\ profiles = BOT_PROFILES

\* BotFactory.__init__: no runtime and no browser yet
NewBotFactory == [playwright |-> None, browser |-> None]

\* no page is being fetched; the factory is as constructed
NoFetches ==
    /\ bot_factory = NewBotFactory
    /\ fetches = <<>>
    /\ started = [runtimes |-> {}, browsers |-> {}]

\* no benchmark request is being served
NoBenchmark == benchmark = [request |-> [url |-> "", bot_type |-> ""], pc |-> "idle",
                            status_code |-> 0]

InitToDict ==
    /\ op = "to_dict"
    /\ html_content = NoHtml
    /\ baseline_time = None
    /\ bot_type = "GPTBot"
    /\ simulation_mode = "WAIO Theory"
    /\ found_attributes = None
    /\ comparison \in ComparisonResults
    /\ derived = <<>>

Init ==
    /\ Fresh
    /\ NoCalls
    /\ NoFetches /\ NoBenchmark
    /\ fault = NoFault
    /\ \/ NoComparison /\ (InitHeuristic \/ InitWaio \/ InitModifier)
       \/ InitToDict

-----------------------------------------------------------------------------
(* Actions *)

args == <<op, html_content, baseline_time, bot_type, simulation_mode, found_attributes>>

\* what a single extraction or modifier call never touches
others == <<comparison, derived, calls, frames, profiles, fault,
            benchmark, bot_factory, fetches, started>>

\* heuristic_extractor.extract(html_content)
HeuristicExtract ==
    /\ op = "heuristic" /\ pc = "start"
    /\ \E elapsed \in HeuristicTimes :
          /\ result' = HeuristicResult(html_content)
          /\ simulated_time' = Some(elapsed)
    /\ pc' = "done"
    /\ outcome' = "returned"
    /\ UNCHANGED <<args, pool, reasoning, cognitive_overhead, found_attrs_map, found_via_waio,
                   remaining_effort_ratio, formula_time, modifier_ret>>
    /\ UNCHANGED others

\* get_scoring_modifier(bot_type, simulation_mode, found_attributes)
GetScoringModifier ==
    /\ op = "modifier" /\ pc = "start"
    /\ modifier_ret' = Some(get_scoring_modifier(bot_type, simulation_mode, found_attributes))
    /\ pc' = "done"
    /\ outcome' = "returned"
    /\ UNCHANGED <<args, result, pool, reasoning, cognitive_overhead, found_attrs_map,
                   found_via_waio, remaining_effort_ratio, formula_time, simulated_time>>
    /\ UNCHANGED others

\* waio_extractor.extract, STEP 1: the timed scan, scoring and selection
Scan ==
    /\ op = "waio" /\ pc = "start"
    /\ LET o == Phase1(html_content, result, fault)
       IN  /\ result' = o.result
           /\ pool' = o.pool
           /\ reasoning' = o.reasoning
    /\ \E elapsed \in ScanTimes : cognitive_overhead' = Some(elapsed)
    /\ pc' = "scanned"
    /\ UNCHANGED <<args, found_attrs_map, found_via_waio, remaining_effort_ratio,
                   formula_time, simulated_time, modifier_ret, outcome>>
    /\ UNCHANGED others

\* waio_extractor.extract, STEP 2 with a baseline: options A and B, floor, backfill
SimulateWarm ==
    /\ op = "waio" /\ pc = "scanned" /\ baseline_time # None
    /\ LET found == FoundAttrsMap(html_content, result.waio_detected)
           n     == FoundViaWaio(result.sources)
           ratio == EffortRatio(n, bot_type, simulation_mode, found)
           t     == OptionTime(n, baseline_time[1], ratio, cognitive_overhead[1])
       IN  /\ found_attrs_map' = found
           /\ found_via_waio' = n
           /\ remaining_effort_ratio' = IF n = 0 THEN None ELSE Some(ratio)
           /\ formula_time' = Some(t)
           /\ simulated_time' = Some(FloorTime(t))
           /\ result' = IF n < 3
                        THEN BackfillWarm(result, HeuristicResult(html_content), Fields)
                        ELSE result
    /\ pc' = "simulated"
    /\ UNCHANGED <<args, pool, reasoning, cognitive_overhead, modifier_ret, outcome>>
    /\ UNCHANGED others

\* waio_extractor.extract, STEP 2 without a baseline: raw measurement plus fallback
SimulateCold ==
    /\ op = "waio" /\ pc = "scanned" /\ baseline_time = None
    /\ \E h_time \in HeuristicTimes :
          LET t == RAdd(cognitive_overhead[1], h_time)
          IN  /\ formula_time' = Some(t)
              /\ simulated_time' = Some(t)
    /\ found_attrs_map' = FoundAttrsMap(html_content, result.waio_detected)
    /\ found_via_waio' = FoundViaWaio(result.sources)
    /\ result' = BackfillCold(result, HeuristicResult(html_content), Fields)
    /\ pc' = "simulated"
    /\ UNCHANGED <<args, pool, reasoning, cognitive_overhead, remaining_effort_ratio,
                   modifier_ret, outcome>>
    /\ UNCHANGED others

\* waio_extractor.extract, STEP 3 and the return
Report ==
    /\ op = "waio" /\ pc = "simulated"
    /\ result' = Phase3(html_content, reasoning, result, fault)
    /\ pc' = "done"
    /\ outcome' = "returned"
    /\ UNCHANGED <<args, pool, reasoning, cognitive_overhead, found_attrs_map, found_via_waio,
                   remaining_effort_ratio, formula_time, simulated_time, modifier_ret>>
    /\ UNCHANGED others

\* the variables of a single extraction or modifier call
call_vars == <<result, pool, reasoning, cognitive_overhead, found_attrs_map, found_via_waio,
               remaining_effort_ratio, formula_time, simulated_time, modifier_ret>>

\* to_dict reads a derived metric: its value is recorded, or its exception leaves to_dict
ReadMetric(name, v, next_pc) ==
    /\ derived' = IF v.raised THEN derived ELSE DictSet(derived, name, v.value)
    /\ pc' = IF v.raised THEN "done" ELSE next_pc
    /\ outcome' = IF v.raised THEN "raised"
                  ELSE IF next_pc = "done" THEN "returned" ELSE outcome
    /\ UNCHANGED <<args, call_vars, comparison, calls, frames, profiles, fault,
                   benchmark, bot_factory, fetches, started>>

\* ComparisonResult.to_dict: self.waio_extraction.integrity_score
ReadIntegrityScore ==
    /\ op = "to_dict" /\ pc = "start"
    /\ ReadMetric("integrity_score", integrity_score(comparison.waio_extraction), "extraction")

\* ComparisonResult.to_dict: self.cognitive_speedup
ReadCognitiveSpeedup ==
    /\ op = "to_dict" /\ pc = "extraction"
    /\ ReadMetric("cognitive_speedup", cognitive_speedup(comparison), "speedup")

\* ComparisonResult.to_dict: self.performance_gain_percent, and the return
ReadPerformanceGainPercent ==
    /\ op = "to_dict" /\ pc = "speedup"
    /\ ReadMetric("performance_gain_percent", performance_gain_percent(comparison), "done")

Next ==
    \/ HeuristicExtract \/ GetScoringModifier
    \/ Scan \/ SimulateWarm \/ SimulateCold \/ Report
    \/ ReadIntegrityScore \/ ReadCognitiveSpeedup \/ ReadPerformanceGainPercent

Spec == Init /\ [][Next]_vars

\* the phases of waio_extractor.extract
NextWaio == Scan \/ SimulateWarm \/ SimulateCold \/ Report

-----------------------------------------------------------------------------
(* Extraction calls that run concurrently on the singleton extractors *)

\* mutant of FrameOf: the locals are kept on the shared extractor instance
FrameOnInstance(c) == 0

\* lines 26-27 and 145-150: timer, result, pool and reasoning are locals of the call;
\* a frame holds them, with timer.elapsed (0 in a new MetricTimer) as elapsed
FrameOf(c) == c

NewFrame ==
    [result |-> NewExtractionResult, pool |-> [f \in FieldSet |-> <<>>], reasoning |-> <<>>,
     elapsed |-> Rat(0, 1), found_via_waio |-> 0, simulated_time |-> None]

Call(o, html, baseline) ==
    [op |-> o, html_content |-> html, baseline_time |-> baseline, pc |-> "start", ret |-> None]

\* the (result, time) a call returns, with the n its cost simulation used
Return(fr, time) == Some([result |-> fr.result, time |-> time, n |-> fr.found_via_waio])

CallDocs == {
    [head |-> NoHead, extracted |-> Some("Body text"), elems |-> << >>],
    [head |-> NoHead, extracted |-> None,
     elems |-> << [tag |-> "h1", attrs |-> << <<"data-ai-title", "Alpha">> >>,
                   text |-> "Heading", parent |-> 0] >>],
    [head |-> [og_title |-> None, tw_title |-> None, title_tag |-> Some(" Page "),
               og_desc |-> Some("About"), meta_desc |-> None],
     extracted |-> Some("Body text"),
     elems |-> << [tag |-> "div",
                   attrs |-> << <<"data-ai-title", "Delta">>, <<"data-ai-description", "Desc">>,
                                <<"data-ai-content", "Body">> >>,
                   text |-> "", parent |-> 0] >>] }

\* the calls the endpoints of main.py make: bot_type and simulation_mode are defaulted
CallInputs ==
    {Call("heuristic", d, None) : d \in CallDocs}
    \cup {Call("waio", d, b) : d \in CallDocs, b \in {None, Some(Micros(3000))}}

\* elapsed times of the timed regions of a concurrent call
CallScanTime == Micros(2000)
CallHeuristicTime == Micros(500)

InitCalls ==
    /\ Fresh /\ NoComparison
    /\ NoFetches /\ NoBenchmark
    /\ op = "concurrent"
    /\ html_content = NoHtml
    /\ baseline_time = None
    /\ bot_type = "GPTBot"
    /\ simulation_mode = "WAIO Theory"
    /\ found_attributes = None
    /\ fault = NoFault
    /\ calls \in [1..MaxCalls -> CallInputs]
    /\ frames = [k \in {FrameOf(c) : c \in 1..MaxCalls} |-> NewFrame]
    /\ profiles = BOT_PROFILES

\* a step of call c: its frame and its own position change, nothing else
StepOf(c, fr, next_pc, ret) ==
    /\ frames' = [frames EXCEPT ![FrameOf(c)] = fr]
    /\ calls' = [calls EXCEPT ![c].pc = next_pc, ![c].ret = ret]
    /\ UNCHANGED <<args, pc, call_vars, outcome, comparison, derived, profiles, fault,
                   benchmark, bot_factory, fetches, started>>

\* heuristic_extractor.extract(html_content) of call c
CallHeuristicExtract(c) ==
    /\ calls[c].op = "heuristic" /\ calls[c].pc = "start"
    /\ LET fr == [NewFrame EXCEPT !.result = HeuristicResult(calls[c].html_content),
                                  !.elapsed = CallHeuristicTime]
       IN  StepOf(c, fr, "done", Return(fr, Some(fr.elapsed)))

\* waio_extractor.extract of call c, lines 145-210
CallScan(c) ==
    /\ calls[c].op = "waio" /\ calls[c].pc = "start"
    /\ LET o  == Phase1(calls[c].html_content, NewExtractionResult, NoFault)
           fr == [NewFrame EXCEPT !.result = o.result, !.pool = o.pool,
                                  !.reasoning = o.reasoning,
                                  !.elapsed = CallScanTime]
       IN  StepOf(c, fr, "scanned", None)

\* waio_extractor.extract of call c, lines 214-267
CallSimulateWarm(c) ==
    /\ calls[c].op = "waio" /\ calls[c].pc = "scanned" /\ calls[c].baseline_time # None
    /\ LET html  == calls[c].html_content
           cur   == frames[FrameOf(c)]
           found == FoundAttrsMap(html, cur.result.waio_detected)
           n     == FoundViaWaio(cur.result.sources)
           ratio == RDiv(BaseEffortRatio(n),
                         ScoringModifierOf(ProfileIn(profiles, bot_type), simulation_mode,
                                           Some(found)))
           t     == OptionTime(n, calls[c].baseline_time[1], ratio, cur.elapsed)
           fr    == [cur EXCEPT !.found_via_waio = n,
                                !.simulated_time = Some(FloorTime(t)),
                                !.result = IF n < 3
                                           THEN BackfillWarm(@, HeuristicResult(html), Fields)
                                           ELSE @]
       IN  StepOf(c, fr, "simulated", None)

\* waio_extractor.extract of call c, lines 214-225 and 268-275
CallSimulateCold(c) ==
    /\ calls[c].op = "waio" /\ calls[c].pc = "scanned" /\ calls[c].baseline_time = None
    /\ LET html == calls[c].html_content
           cur  == frames[FrameOf(c)]
           fr   == [cur EXCEPT !.found_via_waio = FoundViaWaio(cur.result.sources),
                               !.simulated_time =
                                   Some(RAdd(cur.elapsed, CallHeuristicTime)),
                               !.result = BackfillCold(@, HeuristicResult(html), Fields)]
       IN  StepOf(c, fr, "simulated", None)

\* waio_extractor.extract of call c, lines 277-291
CallReport(c) ==
    /\ calls[c].op = "waio" /\ calls[c].pc = "simulated"
    /\ LET cur == frames[FrameOf(c)]
           fr  == [cur EXCEPT !.result = Phase3(calls[c].html_content, cur.reasoning, @, NoFault)]
       IN  StepOf(c, fr, "done", Return(fr, fr.simulated_time))

NextCalls ==
    \E c \in 1..Len(calls) :
        \/ CallHeuristicExtract(c)
        \/ CallScan(c)
        \/ CallSimulateWarm(c)
        \/ CallSimulateCold(c)
        \/ CallReport(c)

SpecCalls == InitCalls /\ [][NextCalls]_vars

-----------------------------------------------------------------------------
(* Baseline extractions over the title sources *)

\* the content of the first og:title / twitter:title meta tag, the text of <title>
TitleHeads ==
    {[og_title |-> og, tw_title |-> tw, title_tag |-> tt, og_desc |-> None, meta_desc |-> None] :
        og \in {None, Some(""), Some("OG")},
        tw \in {None, Some(""), Some("TW")},
        tt \in {None, Some(""), Some(" "), Some(" Page ")}}

\* bodies without an <h1>, with an empty one, with one whose text is in a child, with two
TitleBodies == {
    << >>,
    << [tag |-> "div", attrs |-> << >>, text |-> "Intro", parent |-> 0] >>,
    << [tag |-> "h1", attrs |-> << >>, text |-> " ", parent |-> 0] >>,
    << [tag |-> "h1", attrs |-> << >>, text |-> "", parent |-> 0],
       [tag |-> "span", attrs |-> << >>, text |-> " Inner ", parent |-> 1] >>,
    << [tag |-> "div", attrs |-> << >>, text |-> "Intro", parent |-> 0],
       [tag |-> "h1", attrs |-> << >>, text |-> "First", parent |-> 1],
       [tag |-> "h1", attrs |-> << >>, text |-> "Second", parent |-> 0] >> }

TitleHtmls ==
    {[head |-> h, extracted |-> Some("Body text"), elems |-> b] :
        h \in TitleHeads, b \in TitleBodies}

InitTitle ==
    /\ Fresh /\ NoCalls /\ NoComparison
    /\ NoFetches /\ NoBenchmark
    /\ op = "heuristic"
    /\ html_content \in TitleHtmls
    /\ baseline_time = None
    /\ bot_type = "GPTBot"
    /\ simulation_mode = "WAIO Theory"
    /\ found_attributes = None
    /\ fault = NoFault

SpecTitle == InitTitle /\ [][HeuristicExtract]_vars

-----------------------------------------------------------------------------
(* Structured extractions over nested containers *)

\* Elements for the containment scopes: the containers of line 162, annotated or not, an
\* element with a direct attribute and an entity type that names the same field, another
\* field and a near miss of "Main", and a wrapper that is none of these.
ScopeKinds == {
    Kind("main",    << >>, ""),
    Kind("article", << <<"data-ai-title", "Art">> >>, ""),
    Kind("div",     << <<"data-ai-entity-type", "Main">> >>, "Text"),
    Kind("div",     << <<"data-ai-intent", "article">> >>, ""),
    Kind("h1",      << <<"data-ai-title", "Alpha">>,
                       <<"data-ai-entity-type", "MainTitle Summary">> >>, "Heading"),
    Kind("span",    << >>, "") }

ScopeTrees(n) ==
    {[i \in 1..n |-> [tag |-> k[i].tag, attrs |-> k[i].attrs, text |-> k[i].text,
                      parent |-> p[i]]] : k \in [1..n -> ScopeKinds], p \in ParentSeqs(n)}

ScopeHtmls(n) ==
    {[head |-> NoHead, extracted |-> Some("Body text"), elems |-> t] :
        t \in UNION {ScopeTrees(m) : m \in 0..n}}

InitScope ==
    /\ Fresh /\ NoCalls /\ NoComparison
    /\ NoFetches /\ NoBenchmark
    /\ op = "waio"
    /\ \/ html_content \in ScopeHtmls(MaxScopeElems) /\ baseline_time = Some(Micros(3000))
       \/ html_content \in ScopeHtmls(1) /\ baseline_time = None
    /\ bot_type = "GPTBot"
    /\ simulation_mode = "WAIO Theory"
    /\ found_attributes = None
    /\ fault = NoFault

SpecScope == InitScope /\ [][NextWaio]_vars

-----------------------------------------------------------------------------
(* Structured extractions whose Phase 1 is interrupted by an exception *)

FaultPoints ==
    {Fault("parse", 0), Fault("query", 0), Fault("containers", 0)}
    \cup {Fault("scoring", k) : k \in 0..(MaxArgElems - 1)}
    \cup {Fault("selection", k) : k \in 0..(Len(Fields) - 1)}
    \cup {Fault("report", k) : k \in 0..Len(Fields)}

InitInterrupted ==
    /\ Fresh /\ NoCalls /\ NoComparison
    /\ NoFetches /\ NoBenchmark
    /\ op = "waio"
    /\ html_content \in Htmls(MaxArgElems)
    /\ baseline_time \in Baselines
    /\ bot_type = "GPTBot"
    /\ simulation_mode = "WAIO Theory"
    /\ found_attributes = None
    /\ fault \in {NoFault} \cup FaultPoints

SpecInterrupted == InitInterrupted /\ [][NextWaio]_vars

-----------------------------------------------------------------------------
(* main.py: run_benchmark *)

\* BenchmarkRequest(url, bot_type)
BenchmarkRequest(url, bot) == [url |-> url, bot_type |-> bot]

\* the bot_type tokens of the requests: every member of BotType, and an unknown one
BenchmarkBots == BotTypeValues \cup {"FooBot"}

\* the documents fetch_page returns: unannotated, and annotated with entity types that
\* the profiles of the table rank differently
BenchmarkDocs == {
    [head |-> [og_title |-> None, tw_title |-> None, title_tag |-> Some(" Page "),
               og_desc |-> Some("About"), meta_desc |-> None],
     extracted |-> Some("Body text"), elems |-> << >>],
    [head |-> NoHead, extracted |-> Some("Body text"),
     elems |-> << [tag |-> "h1",
                   attrs |-> << <<"data-ai-title", "Alpha">>,
                                <<"data-ai-entity-type", "Review">> >>,
                   text |-> "Heading", parent |-> 0] >>],
    [head |-> NoHead, extracted |-> Some("Body text"),
     elems |-> << [tag |-> "div",
                   attrs |-> << <<"data-ai-title", "Delta">>, <<"data-ai-description", "Desc">>,
                                <<"data-ai-content", "Body">>,
                                <<"data-ai-entity-type", "Product">> >>,
                   text |-> "", parent |-> 0] >>],
    [head |-> NoHead, extracted |-> None,
     elems |-> << [tag |-> "h1", attrs |-> << <<"data-ai-title", "Alpha">> >>,
                   text |-> "Heading", parent |-> 0],
                  [tag |-> "div", attrs |-> << <<"data-ai-entity-type", "FAQPage">> >>,
                   text |-> "", parent |-> 0] >>] }

InitBenchmark ==
    /\ Fresh /\ NoCalls /\ NoComparison /\ NoFetches
    /\ op = "benchmark"
    /\ html_content = NoHtml
    /\ baseline_time = None
    /\ bot_type = "GPTBot"
    /\ simulation_mode = "WAIO Theory"
    /\ found_attributes = None
    /\ fault = NoFault
    /\ benchmark \in {[request |-> BenchmarkRequest("https://example.org/", b),
                       pc |-> "start", status_code |-> 0] : b \in BenchmarkBots}

\* what run_benchmark and the extractor calls it makes never touch
benchmark_frame == <<found_attributes, calls, frames, profiles, fault,
                     bot_factory, fetches, started>>

\* lines 94-107: BotType(request.bot_type), or HTTP 400; the comparison record is created
BenchmarkValidate ==
    /\ op = "benchmark" /\ benchmark.pc = "start"
    /\ IF benchmark.request.bot_type \in BotTypeValues
       THEN /\ comparison' = [NewComparisonResult EXCEPT
                                 !.url = benchmark.request.url,
                                 !.bot_type = benchmark.request.bot_type]
            /\ benchmark' = [benchmark EXCEPT !.pc = "fetch"]
            /\ UNCHANGED outcome
       ELSE /\ benchmark' = [benchmark EXCEPT !.pc = "done", !.status_code = 400]
            /\ outcome' = "raised"
            /\ UNCHANGED comparison
    /\ UNCHANGED <<op, html_content, baseline_time, bot_type, simulation_mode, pc,
                   call_vars, derived>>
    /\ UNCHANGED benchmark_frame

\* lines 109-132: fetch_page returns a document (or raises: HTTP 500), the warm-up pass
\* runs and is discarded, and heuristic_extractor.extract(html_content) is called
BenchmarkFetch ==
    /\ op = "benchmark" /\ benchmark.pc = "fetch"
    /\ \/ \E html \in BenchmarkDocs :
             /\ html_content' = html
             /\ op' = "heuristic"
             /\ benchmark' = [benchmark EXCEPT !.pc = "heuristic"]
             /\ UNCHANGED outcome
       \/ /\ benchmark' = [benchmark EXCEPT !.pc = "done", !.status_code = 500]
          /\ outcome' = "raised"
          /\ UNCHANGED <<op, html_content>>
    /\ UNCHANGED <<baseline_time, bot_type, simulation_mode, pc, call_vars,
                   comparison, derived>>
    /\ UNCHANGED benchmark_frame

\* lines 132-138: the baseline result and its time are stored, and
\* waio_extractor.extract(html_content, baseline_time=heuristic_time) is called:
\* bot_type and simulation_mode take the defaults of extractors.py line 135
BenchmarkExtract ==
    /\ benchmark.pc = "heuristic" /\ op = "heuristic" /\ pc = "done"
    /\ comparison' = [comparison EXCEPT
                         !.heuristic_extraction = result,
                         !.heuristic_metrics.cognitive_time = simulated_time[1]]
    /\ op' = "waio"
    /\ baseline_time' = simulated_time
    /\ bot_type' = "GPTBot"
    /\ simulation_mode' = "WAIO Theory"
    /\ pc' = "start"
    /\ result' = NewExtractionResult
    /\ pool' = [f \in FieldSet |-> <<>>]
    /\ reasoning' = <<>>
    /\ cognitive_overhead' = None
    /\ found_attrs_map' = <<>>
    /\ found_via_waio' = 0
    /\ remaining_effort_ratio' = None
    /\ formula_time' = None
    /\ simulated_time' = None
    /\ outcome' = "pending"
    /\ benchmark' = [benchmark EXCEPT !.pc = "waio"]
    /\ UNCHANGED <<html_content, modifier_ret, derived>>
    /\ UNCHANGED benchmark_frame

\* lines 138-148: the structured result and its time are stored; result.to_dict() starts
BenchmarkStore ==
    /\ benchmark.pc = "waio" /\ op = "waio" /\ pc = "done"
    /\ comparison' = [comparison EXCEPT
                         !.waio_extraction = result,
                         !.waio_metrics.cognitive_time = simulated_time[1]]
    /\ op' = "to_dict"
    /\ pc' = "start"
    /\ outcome' = "pending"
    /\ derived' = <<>>
    /\ benchmark' = [benchmark EXCEPT !.pc = "to_dict"]
    /\ UNCHANGED <<html_content, baseline_time, bot_type, simulation_mode, call_vars>>
    /\ UNCHANGED benchmark_frame

\* line 148: the serialised record is the response
BenchmarkReturn ==
    /\ benchmark.pc = "to_dict" /\ op = "to_dict" /\ pc = "done"
    /\ benchmark' = [benchmark EXCEPT
                        !.pc = "done",
                        !.status_code = IF outcome = "returned" THEN 200 ELSE 500]
    /\ UNCHANGED <<op, html_content, baseline_time, bot_type, simulation_mode, pc,
                   call_vars, outcome, comparison, derived>>
    /\ UNCHANGED benchmark_frame

NextBenchmark ==
    \/ BenchmarkValidate \/ BenchmarkFetch
    \/ HeuristicExtract \/ BenchmarkExtract
    \/ Scan \/ SimulateWarm \/ Report \/ BenchmarkStore
    \/ ReadIntegrityScore \/ ReadCognitiveSpeedup \/ ReadPerformanceGainPercent
    \/ BenchmarkReturn

SpecBenchmark == InitBenchmark /\ [][NextBenchmark]_vars

-----------------------------------------------------------------------------
(* bot_factory.py: BotFactory.fetch_page on the shared factory *)

\* BOT_CONFIGS[bot_type].is_dynamic: only ChatGPT-User uses Playwright
IsDynamic(bot) == bot = "ChatGPT-User"

\* the bot types of the fetches explored: the dynamic one and two static ones
FetchBots == {"ChatGPT-User", "GPTBot", "Googlebot"}

\* a fetch_page(url, bot_type) task before its first step
Fetch(bot) == [bot_type |-> bot, pc |-> "start", outcome |-> "pending"]

InitFetch ==
    /\ Fresh /\ NoCalls /\ NoComparison /\ NoBenchmark
    /\ op = "fetch"
    /\ html_content = NoHtml
    /\ baseline_time = None
    /\ bot_type = "GPTBot"
    /\ simulation_mode = "WAIO Theory"
    /\ found_attributes = None
    /\ fault = NoFault
    /\ bot_factory = NewBotFactory
    /\ fetches \in [1..MaxFetches -> {Fetch(b) : b \in FetchBots}]
    /\ started = [runtimes |-> {}, browsers |-> {}]

\* a step of task t: its position and outcome, the factory and the environment change
FetchStep(t, next_pc, next_outcome, factory, env) ==
    /\ fetches' = [fetches EXCEPT ![t].pc = next_pc, ![t].outcome = next_outcome]
    /\ bot_factory' = factory
    /\ started' = env
    /\ UNCHANGED <<args, pc, call_vars, outcome, comparison, derived, calls, frames,
                   profiles, fault, benchmark>>

\* line 230: self._browser.new_context(...) is awaited, or raises AttributeError when
\* self._browser is still None
NewContextPc(factory) == IF factory.browser = None THEN "done" ELSE "context"
NewContextOutcome(factory) == IF factory.browser = None THEN "raised" ELSE "pending"

\* line 142: if self._playwright is None
EnsureNeeded(factory) == factory.playwright = None

\* fetch_page of a static bot, lines 161-221: no await inside, the fetch returns or raises
FetchStatic(t) ==
    /\ fetches[t].pc = "start" /\ ~IsDynamic(fetches[t].bot_type)
    /\ \E o \in {"returned", "raised"} : FetchStep(t, "done", o, bot_factory, started)

\* fetch_page of a dynamic bot up to its first await, lines 161-177, 228 and 142-144 or 230:
\* with no runtime recorded it starts one and awaits the start; otherwise it goes on to
\* new_context
FetchDynamic(t) ==
    /\ fetches[t].pc = "start" /\ IsDynamic(fetches[t].bot_type)
    /\ IF EnsureNeeded(bot_factory)
       THEN FetchStep(t, "starting", "pending", bot_factory,
                      [started EXCEPT !.runtimes = @ \cup {t}])
       ELSE FetchStep(t, NewContextPc(bot_factory), NewContextOutcome(bot_factory),
                      bot_factory, started)

\* lines 144-145: the start completes, self._playwright is assigned, the launch is awaited
PlaywrightStarted(t) ==
    /\ fetches[t].pc = "starting"
    /\ FetchStep(t, "launching", "pending", [bot_factory EXCEPT !.playwright = Some(t)],
                 [started EXCEPT !.browsers = @ \cup {t}])

\* lines 145-148 and 230: the launch completes, self._browser is assigned, the task is
\* back in _fetch_dynamic at new_context
BrowserLaunched(t) ==
    /\ fetches[t].pc = "launching"
    /\ LET factory == [bot_factory EXCEPT !.browser = Some(t)]
       IN  FetchStep(t, NewContextPc(factory), NewContextOutcome(factory), factory, started)

\* lines 230-240: the context and the page exist, the navigation is awaited
ContextCreated(t) ==
    /\ fetches[t].pc = "context"
    /\ FetchStep(t, "page", "pending", bot_factory, started)

\* lines 240-257: the page loads or the navigation raises; the context is closed
PageLoaded(t) ==
    /\ fetches[t].pc = "page"
    /\ \E o \in {"returned", "raised"} : FetchStep(t, "done", o, bot_factory, started)

NextFetch ==
    \E t \in 1..MaxFetches :
        \/ FetchStatic(t) \/ FetchDynamic(t)
        \/ PlaywrightStarted(t) \/ BrowserLaunched(t)
        \/ ContextCreated(t) \/ PageLoaded(t)

SpecFetch == InitFetch /\ [][NextFetch]_vars

-----------------------------------------------------------------------------
(* Properties of the cost simulation *)

Returned == pc = "done" /\ outcome = "returned"
WaioReturned == op = "waio" /\ Returned
\* Phase 2 of a structured extraction has run
Simulated == op = "waio" /\ pc \in {"simulated", "done"}

OneMillisecond == Rat(1, 1000)

\* C1: whatever the inputs of the structured extractor (baseline supplied or not, any
\* consumer, any mode, any n), the returned simulated time is at least 0.001 seconds.
C1_SimulatedTimeFloor ==
    WaioReturned => RLeq(OneMillisecond, simulated_time[1])

\* C2: with a baseline supplied and no field resolved via structured selection, the
\* returned simulated time equals the baseline exactly, for every baseline.
C2_NoBenefitEqualsBaseline ==
    (WaioReturned /\ baseline_time # None /\ found_via_waio = 0)
        => simulated_time = baseline_time

\* C2 as amended: with a baseline supplied and no field resolved via structured
\* selection, the returned simulated time is the larger of the baseline and 0.001 s;
\* it equals the baseline exactly whenever the baseline is at least 0.001 s.
C2_NoBenefitEqualsFlooredBaseline ==
    (WaioReturned /\ baseline_time # None /\ found_via_waio = 0)
        => /\ formula_time = baseline_time
           /\ simulated_time[1] = IF RLess(baseline_time[1], OneMillisecond)
                                  THEN OneMillisecond
                                  ELSE baseline_time[1]

\* a call with n = 0 whose baseline lies above the floor returned the baseline itself
C2_Witness ==
    /\ WaioReturned /\ baseline_time # None /\ found_via_waio = 0
    /\ RLess(OneMillisecond, baseline_time[1])
    /\ simulated_time = baseline_time

\* some prioritized category of the consumer's profile occurs, ignoring case, in a key
\* or in a value of the found-attribute map
PreferredOccurs(bot, found) ==
    \E c \in 1..Len(BOT_PROFILES[bot].file_types) :
        \E i \in 1..Len(found) :
            \E part \in {found[i][1], found[i][2]} :
                LET cat  == Lower(BOT_PROFILES[bot].file_types[c])
                    text == Lower(part)
                IN  \E a \in 1..(Len(text) - Len(cat) + 1) :
                        SubSeq(text, a, a + Len(cat) - 1) = cat

\* the preference modifier of a known consumer and mode, as the specification tabulates it
TabulatedModifier(bot, mode, found) ==
    IF mode = "WAIO Theory"
    THEN (IF PreferredOccurs(bot, found) THEN Rat(168, 100) ELSE Rat(12, 10))
    ELSE (IF PreferredOccurs(bot, found) THEN Rat(11, 10) ELSE Rat(1, 1))

\* max(0.05, 1 - (n/3) * 0.95) for n = 1, 2, 3
TabulatedRatio(n) ==
    CASE n = 1 -> Rat(41, 60)
      [] n = 2 -> Rat(22, 60)
      [] n = 3 -> Rat(5, 100)

-----------------------------------------------------------------------------
(* Properties of the preference modifier and of the argument tokens *)

ModifierReturned == op = "modifier" /\ Returned

\* C4: for every consumer and every found-attribute map, get_scoring_modifier returns
\* 1.2 in theory mode when no prioritized category of the consumer's profile occurs
\* (case-insensitive substring) in the found keys or values and 1.2 * 1.4, strictly
\* between 1.6 and 1.7, when one occurs; 1.0 and 1.1 in consensus mode; and nothing
\* else for a non-null map.
C4_ModifierTable ==
    (ModifierReturned /\ found_attributes # None)
        => LET occurs == PreferredOccurs(bot_type, found_attributes[1])
               m      == modifier_ret[1]
           IN  /\ (simulation_mode = "WAIO Theory" /\ ~occurs) => m = Rat(12, 10)
               /\ (simulation_mode = "WAIO Theory" /\ occurs)
                      => /\ m = RMul(Rat(12, 10), Rat(14, 10))
                         /\ RLess(Rat(16, 10), m) /\ RLess(m, Rat(17, 10))
               /\ (simulation_mode = "Industry Consensus" /\ ~occurs) => m = Rat(1, 1)
               /\ (simulation_mode = "Industry Consensus" /\ occurs) => m = Rat(11, 10)
               /\ m \in {Rat(12, 10), Rat(168, 100), Rat(1, 1), Rat(11, 10)}

\* a theory-mode call whose map holds a preferred category only in upper case, in a key
C4_Witness ==
    /\ ModifierReturned /\ found_attributes # None
    /\ simulation_mode = "WAIO Theory"
    /\ found_attributes[1] = << <<"our PRODUCT range", "data-ai-summary">> >>
    /\ PreferredOccurs(bot_type, found_attributes[1])
    /\ modifier_ret = Some(Rat(168, 100))

\* C5: a comparison-mode token that is not one of the two known values makes the
\* structured extractor's call raise; it is never silently defaulted or ignored.
C5_UnknownModeRaises ==
    (op = "waio" /\ pc = "done" /\ simulation_mode \notin SimulationModeValues)
        => outcome = "raised"

\* C6: an unknown consumer identity does not make the call fail and is treated as the
\* default profile with empty preference sets: with a baseline and n > 0 the remaining
\* ratio is divided by 1.2 in theory mode and by 1.0 in consensus mode.
C6_UnknownConsumerDefaultProfile ==
    (Simulated /\ bot_type \notin BotTypeValues /\ simulation_mode \in SimulationModeValues
       /\ baseline_time # None /\ found_via_waio \in 1..3)
        => /\ outcome # "raised"
           /\ remaining_effort_ratio =
                 Some(RDiv(TabulatedRatio(found_via_waio),
                           IF simulation_mode = "WAIO Theory" THEN Rat(12, 10) ELSE Rat(1, 1)))

-----------------------------------------------------------------------------
(* Properties of the returned ExtractionResult *)

ExtractorReturned == op \in {"heuristic", "waio"} /\ Returned

\* the document has no attribute whose name begins with data-ai-
NoReservedPrefixAttribute(html) ==
    \A i \in 1..Len(html.elems) : \A a \in 1..Len(html.elems[i].attrs) :
        ~StartsWith(html.elems[i].attrs[a][1], "data-ai-")

\* C7: for every document without a data-ai-* attribute, both extractors return
\* structuredMarkersDetected = false and every resolved field has provenance heuristic.
C7_NoMarkersNoDetection ==
    (ExtractorReturned /\ NoReservedPrefixAttribute(html_content))
        => /\ result.waio_detected = FALSE
           /\ \A f \in FieldSet :
                 Truthy(result[f]) => (f \in DOMAIN result.sources
                                        /\ result.sources[f] = "heuristic")

\* C8: in every returned ExtractionResult each of title, summary and main-content has
\* an entry in the provenance map if and only if its value is non-empty.
C8_ProvenanceIffNonEmpty ==
    ExtractorReturned
        => \A f \in FieldSet : (f \in DOMAIN result.sources) <=> Truthy(result[f])

-----------------------------------------------------------------------------
(* Properties of the selection *)

Scanned == op = "waio" /\ pc # "start"

MaxScore(cands) ==
    CHOOSE m \in {cands[i].score : i \in 1..Len(cands)} :
        \A i \in 1..Len(cands) : cands[i].score <= m

\* C9: for each field, the selected candidate has the maximum score of the pool,
\* whatever the document order of the candidates: a candidate with a lower score than
\* another one of the pool is never selected.
C9_HighestScoreSelected ==
    Scanned
        => \A f \in FieldSet :
              LET cands == Candidates(html_content.elems, f)
              IN  cands # <<>>
                    => /\ f \in DOMAIN reasoning
                       /\ \E i \in 1..Len(cands) : reasoning[f] = cands[i]
                       /\ \A i \in 1..Len(cands) : cands[i].score <= reasoning[f].score
                       /\ pc = "scanned"
                             => /\ result[f] = Some(reasoning[f].value)
                                /\ result.sources[f] = "waio"

\* a lower-scored candidate precedes the selected one in document order
C9_Witness ==
    /\ Scanned
    /\ LET cands == Candidates(html_content.elems, "title")
       IN  /\ Len(cands) = 2
           /\ cands[1].score < cands[2].score
           /\ reasoning["title"] = cands[2]

\* C10: for each field, when several candidates share the maximum score, the selected
\* candidate is the one whose element appears earliest in document order.
C10_EarliestAmongTies ==
    Scanned
        => \A f \in FieldSet :
              LET cands == Candidates(html_content.elems, f)
              IN  cands # <<>>
                    => /\ f \in DOMAIN reasoning
                       /\ reasoning[f].score = MaxScore(cands)
                       /\ \A i \in 1..Len(cands) :
                             cands[i].score = MaxScore(cands)
                                => reasoning[f].elem <= cands[i].elem

\* two different candidates tie at the maximum and the earlier one is selected
C10_Witness ==
    /\ Scanned
    /\ LET cands == Candidates(html_content.elems, "title")
       IN  /\ Len(cands) = 2
           /\ cands[1].score = cands[2].score
           /\ cands[1].value # cands[2].value
           /\ reasoning["title"] = cands[1]
           /\ result.title = Some(cands[1].value)

-----------------------------------------------------------------------------
(* Properties of the scoring *)

\* element i is one of the containers or lies below one of them
InsideOf(elems, i, containers) ==
    \/ i \in containers
    \/ \E a \in Ancestors([j \in 1..Len(elems) |-> elems[j].parent], i) : a \in containers

\* the elements that carry data-importance="critical"
MarkedCritical(elems) ==
    {i \in 1..Len(elems) :
        \E a \in 1..Len(elems[i].attrs) : elems[i].attrs[a] = <<"data-importance", "critical">>}

\* the containers of the main scope: main and article elements, elements whose entity type
\* is "Main", elements whose intent is "article"
ScopeContainers(elems) ==
    {i \in 1..Len(elems) :
        \/ elems[i].tag = "main"
        \/ elems[i].tag = "article"
        \/ \E a \in 1..Len(elems[i].attrs) :
              elems[i].attrs[a] \in {<<"data-ai-entity-type", "Main">>,
                                     <<"data-ai-intent", "article">>}}

\* the attribute names that are a direct match for a field
DirectNames(f) ==
    CASE f = "title"   -> {"data-ai-title"}
      [] f = "summary" -> {"data-ai-summary", "data-ai-description"}
      [] OTHER         -> {"data-ai-content", "data-ai-main", "data-ai-article"}

CarriesDirect(elems, i, f) ==
    \E a \in 1..Len(elems[i].attrs) : elems[i].attrs[a][1] \in DirectNames(f)

\* C11: every candidate's score is the sum of three independent terms: 50 if its element
\* is in main scope, 100 if its element carries data-importance="critical" or lies in the
\* critical set (once, even when both hold), and 100 for a direct match or 50 for an
\* entity-type match; so direct + main + critical scores 250, direct + main only 150,
\* direct + critical outside main scope 200.
C11_AdditiveScore ==
    Scanned
        => \A f \in FieldSet : \A k \in 1..Len(pool[f]) :
              LET elems    == html_content.elems
                  c        == pool[f][k]
                  in_main  == InsideOf(elems, c.elem, ScopeContainers(elems))
                  critical == InsideOf(elems, c.elem, MarkedCritical(elems))
                  direct   == CarriesDirect(elems, c.elem, f)
              IN  /\ c.score = (IF in_main THEN 50 ELSE 0)
                               + (IF critical THEN 100 ELSE 0)
                               + (IF direct THEN 100 ELSE 50)
                  /\ (direct /\ in_main /\ critical) => c.score = 250
                  /\ (direct /\ in_main /\ ~critical) => c.score = 150
                  /\ (direct /\ ~in_main /\ critical) => c.score = 200

\* a directly annotated element that is marked critical itself, inside a main container,
\* was scored 250 and selected
C11_Witness ==
    /\ Scanned
    /\ Len(html_content.elems) = 2
    /\ html_content.elems[1].tag = "main"
    /\ html_content.elems[2].parent = 1
    /\ 2 \in MarkedCritical(html_content.elems)
    /\ CarriesDirect(html_content.elems, 2, "title")
    /\ Len(pool["title"]) = 1
    /\ pool["title"][1].score = 250
    /\ reasoning["title"].score = 250

-----------------------------------------------------------------------------
(* Properties of the derived metrics *)

HasDerived(name) == op = "to_dict" /\ \E i \in 1..Len(derived) : derived[i][1] = name
DerivedValue(name) == derived[CHOOSE i \in 1..Len(derived) : derived[i][1] = name][2]

\* the core fields a provenance map tags as structured
StructuredFields(sources) == {f \in FieldSet : f \in DOMAIN sources /\ sources[f] = "waio"}

\* C12: integrityScore equals (number of the three core fields whose provenance is
\* structured) / 3 * 100: exactly 100 when all three are structured, exactly 0 when none
\* is; a field tagged heuristic or absent from the provenance map never counts.
C12_IntegrityScore ==
    HasDerived("integrity_score")
        => LET sources == comparison.waio_extraction.sources
               k       == Cardinality(StructuredFields(sources))
               score   == DerivedValue("integrity_score")
           IN  /\ score = Rat(k * 100, 3)
               /\ (\A f \in FieldSet : f \in StructuredFields(sources)) => score = Rat(100, 1)
               /\ StructuredFields(sources) = {} => score = Rat(0, 1)

\* one field structured, one heuristic, one absent: the score is a third of 100
C12_Witness ==
    /\ HasDerived("integrity_score")
    /\ comparison.waio_extraction.sources = [title |-> "waio", summary |-> "heuristic"]
    /\ DerivedValue("integrity_score") = Rat(100, 3)

\* C13: speedup is 0 when the structured cognitive time is 0 and baseline/structured
\* otherwise; gainPercent is 0 when the baseline cognitive time is 0 and
\* (baseline - structured)/baseline * 100 otherwise; neither computation divides by zero,
\* for any pair of cognitive times.
C13_NoZeroDivision ==
    op = "to_dict"
        => LET h == comparison.heuristic_metrics.cognitive_time
               w == comparison.waio_metrics.cognitive_time
           IN  /\ outcome # "raised"
               /\ pc = "done" => (HasDerived("cognitive_speedup")
                                    /\ HasDerived("performance_gain_percent"))
               /\ HasDerived("cognitive_speedup")
                     => DerivedValue("cognitive_speedup")
                           = IF w[1] = 0 THEN Rat(0, 1) ELSE Rat(h[1] * w[2], h[2] * w[1])
               /\ HasDerived("performance_gain_percent")
                     => DerivedValue("performance_gain_percent")
                           = IF h[1] = 0 THEN Rat(0, 1)
                             ELSE RMul(RMul(RSub(h, w), Rat(h[2], h[1])), Rat(100, 1))

\* a record whose structured time is 0 and whose baseline time is not was serialised:
\* speedup 0, gain 100 percent
C13_Witness ==
    /\ op = "to_dict" /\ pc = "done" /\ outcome = "returned"
    /\ comparison.waio_metrics.cognitive_time = Rat(0, 1)
    /\ comparison.heuristic_metrics.cognitive_time # Rat(0, 1)
    /\ DerivedValue("cognitive_speedup") = Rat(0, 1)
    /\ DerivedValue("performance_gain_percent") = Rat(100, 1)

-----------------------------------------------------------------------------
(* Properties of the fallback composition and of the phases *)

\* the fields structured selection resolved: those with a winning candidate
Resolved == DOMAIN reasoning

\* C14: with a baseline supplied and n < 3, the backfill copies from the baseline
\* extractor only the fields structured selection did not resolve and tags them
\* heuristic; every field structured selection resolved keeps its selected value and
\* its provenance structured in the returned result.
C14_BackfillOnlyUnresolved ==
    (Simulated /\ baseline_time # None /\ found_via_waio < 3)
        => \A f \in FieldSet :
              LET h == HeuristicResult(html_content)
              IN  IF f \in Resolved
                  THEN /\ result[f] = Some(reasoning[f].value)
                       /\ f \in DOMAIN result.sources
                       /\ result.sources[f] = "waio"
                  ELSE \/ /\ Truthy(h[f])
                          /\ result[f] = h[f]
                          /\ f \in DOMAIN result.sources
                          /\ result.sources[f] = "heuristic"
                       \/ /\ ~Truthy(h[f])
                          /\ result[f] = None
                          /\ f \notin DOMAIN result.sources

\* the Phase 1 scan of this call raised
ScanRaised == Scanned /\ Raises(html_content, fault)

\* C15: if any step of the Phase 1 scan (parse, annotated-element query, containment
\* sets, scoring, selection) raises, the error does not propagate out of extract and the
\* call proceeds as if no structured data had been found: structuredMarkersDetected is
\* false, no field has provenance structured, and n = 0 in the cost simulation.
C15_ScanErrorMeansNothingFound ==
    ScanRaised
        => /\ outcome # "raised"
           /\ result.waio_detected = FALSE
           /\ \A f \in DOMAIN result.sources : result.sources[f] # "waio"
           /\ Simulated => found_via_waio = 0

\* the fields of an ExtractionResult other than the diagnostic map
Observed(r) == <<r.title, r.summary, r.main_content, r.sources, r.waio_detected>>

\* C16: Phase 3 changes only the diagnostic map: title, summary, main-content, provenance
\* map, structuredMarkersDetected and the returned simulated time are the same whether
\* Phase 3 succeeds, fails at any point or records any number of entries, and a failure
\* of Phase 3 never propagates to the caller.
C16_ReportIsObservational ==
    [][(op = "waio" /\ pc = "simulated")
          => /\ Observed(result') = Observed(result)
             /\ simulated_time' = simulated_time
             /\ pc' = "done" /\ outcome' = "returned"]_vars

\* a call returned whose Phase 3 failed after recording one entry out of several
C16_Witness ==
    /\ WaioReturned
    /\ fault = Fault("report", 1)
    /\ Len(result.attributes_found) = 1
    /\ Len(ReportEntries(html_content, reasoning, <<>>)) > 1
    /\ Truthy(result.title) /\ result.sources["title"] = "waio"

-----------------------------------------------------------------------------
(* Properties of the candidate pools and of the main scope *)

\* the candidates element i contributed to the pool of field f
Contributed(f, i) == {k \in 1..Len(pool[f]) : pool[f][k].elem = i}

\* C17: every annotated element contributes at most one candidate to each field's pool:
\* when it carries a direct attribute for the field the candidate is the direct match
\* (+100), and an entity-type match (+50) is added for the field only when the element
\* has no direct attribute for it.
C17_OneCandidatePerElementAndField ==
    Scanned
        => \A f \in FieldSet : \A i \in 1..Len(html_content.elems) :
              LET elems == html_content.elems
                  mine  == Contributed(f, i)
              IN  /\ Cardinality(mine) <= 1
                  /\ CarriesDirect(elems, i, f)
                        => \E k \in mine :
                              /\ StartsWith(pool[f][k].reason, "Direct data-ai-")
                              /\ pool[f][k].score >= 100
                  /\ \A k \in mine :
                        StartsWith(pool[f][k].reason, "Entity Type match")
                            => /\ ~CarriesDirect(elems, i, f)
                               /\ pool[f][k].score \in {50, 100, 150, 200}

\* an element with a direct title attribute and an entity type naming both Title and
\* Summary contributed the direct match to the title pool, the entity-type match to the
\* summary pool
C17_Witness ==
    /\ Scanned
    /\ Len(html_content.elems) = 1
    /\ CarriesDirect(html_content.elems, 1, "title")
    /\ html_content.elems[1].attrs =
           << <<"data-ai-title", "Alpha">>, <<"data-ai-entity-type", "MainTitle Summary">> >>
    /\ Len(pool["title"]) = 1 /\ pool["title"][1].reason = "Direct data-ai-title"
    /\ Len(pool["summary"]) = 1 /\ pool["summary"][1].score = 50

\* element i is a proper descendant of one of the containers
DescendantOf(elems, i, containers) ==
    \E a \in Ancestors([j \in 1..Len(elems) |-> elems[j].parent], i) : a \in containers

\* the part of a candidate's score that is neither the critical nor the match term
ScopeBonus(elems, f, c) ==
    c.score - (IF InsideOf(elems, c.elem, MarkedCritical(elems)) THEN 100 ELSE 0)
            - (IF CarriesDirect(elems, c.elem, f) THEN 100 ELSE 50)

\* C18: an annotated element receives the +50 main-scope bonus exactly when it is a
\* descendant of a main or article element, of an element whose data-ai-entity-type
\* equals "Main" or of an element whose data-ai-intent equals "article"; an annotated
\* element outside every such container receives no scope bonus.
C18_ScopeBonusIffDescendant ==
    Scanned
        => \A f \in FieldSet : \A k \in 1..Len(pool[f]) :
              LET elems == html_content.elems
                  c     == pool[f][k]
              IN  ScopeBonus(elems, f, c)
                     = IF DescendantOf(elems, c.elem, ScopeContainers(elems)) THEN 50 ELSE 0

-----------------------------------------------------------------------------
(* Properties of the baseline extractor *)

HeuristicReturned == op = "heuristic" /\ Returned

\* the <h1> elements of a document
H1s(html) == {i \in 1..Len(html.elems) : html.elems[i].tag = "h1"}

\* the four title sources in their fixed order, each absent (None) or its value
TitleSources(html) ==
    << html.head.og_title,
       html.head.tw_title,
       IF html.head.title_tag = None THEN None ELSE Some(Strip(html.head.title_tag[1])),
       IF H1s(html) = {} THEN None
       ELSE Some(GetTextStrip(html.elems, CHOOSE i \in H1s(html) : \A j \in H1s(html) : i <= j)) >>

\* the positions of the sources that are present and not empty
NonEmptySources(html) ==
    {k \in 1..4 : TitleSources(html)[k] # None /\ TitleSources(html)[k][1] # ""}

FirstNonEmptySource(html) ==
    TitleSources(html)[CHOOSE k \in NonEmptySources(html) :
                          \A m \in NonEmptySources(html) : k <= m]

\* C19: the baseline extractor's title is the first non-empty value in the order og:title
\* content, twitter:title content, <title> text, first <h1> text; a later source is used
\* only when every earlier one is absent or empty, and the title is unset when all four
\* are.
C19_TitleChainOrUnset ==
    HeuristicReturned
        => IF NonEmptySources(html_content) # {}
           THEN result.title = FirstNonEmptySource(html_content)
           ELSE result.title = None

\* C19 as amended: as above, but when all four sources are absent or empty the title is
\* unset only if the document has neither a <title> nor an <h1>; otherwise it is the
\* empty string; in both cases it carries no provenance.
C19_TitleChainOrEmpty ==
    HeuristicReturned
        => IF NonEmptySources(html_content) # {}
           THEN result.title = FirstNonEmptySource(html_content)
           ELSE /\ result.title = IF html_content.head.title_tag = None /\ H1s(html_content) = {}
                                  THEN None ELSE Some("")
                /\ "title" \notin DOMAIN result.sources

\* og:title is absent, twitter:title empty and <title> blank: the first <h1> gave the title
C19_Witness ==
    /\ HeuristicReturned
    /\ html_content.head.og_title = None
    /\ html_content.head.tw_title = Some("")
    /\ html_content.head.title_tag = Some(" ")
    /\ H1s(html_content) = {2, 3}
    /\ result.title = Some("First")
    /\ result.sources["title"] = "heuristic"

-----------------------------------------------------------------------------
(* Properties of concurrent calls *)

\* what a call returns when it runs alone on its own arguments: fields, provenance, n
Alone(call) ==
    IF call.op = "heuristic"
    THEN [result |-> HeuristicResult(call.html_content), n |-> 0]
    ELSE LET scanned == ScanOutcome(call.html_content, NewExtractionResult).result
             n       == Cardinality(DOMAIN scanned.sources)
             h       == HeuristicResult(call.html_content)
         IN  [result |-> IF call.baseline_time = None THEN BackfillCold(scanned, h, Fields)
                         ELSE IF n < 3 THEN BackfillWarm(scanned, h, Fields)
                         ELSE scanned,
              n |-> n]

-----------------------------------------------------------------------------
(* Properties of the resolved count *)

\* C21: the count n of structurally resolved fields used by the cost simulation equals
\* the number of core fields whose provenance is structured in the result that extract
\* returns, so the returned result's integrityScore is n/3 * 100 for the same n that
\* determined the simulated time, also when a winning candidate's value is empty and
\* when the backfill runs.
C21_CountMatchesReturnedProvenance ==
    WaioReturned
        => /\ found_via_waio = Cardinality(StructuredFields(result.sources))
           /\ integrity_score(result) = Value(Rat(found_via_waio * 100, 3))

-----------------------------------------------------------------------------
(* Properties of the benchmark comparison *)

\* the benchmark has run the structured extractor and its cost simulation
BenchmarkSimulated ==
    /\ benchmark.pc \in {"waio", "to_dict", "done"}
    /\ benchmark.status_code \in {0, 200}
    /\ (benchmark.pc = "waio" => Simulated)

\* C22: in the benchmark comparison the structured extractor is run with baselineTime
\* equal to the baseline extractor's measured cognitive time and with the consumer
\* identity equal to the bot type named in the request, so the preference modifier
\* applied is the one of the requested bot's profile.
C22_BenchmarkUsesRequestedBot ==
    BenchmarkSimulated
        => /\ baseline_time = Some(comparison.heuristic_metrics.cognitive_time)
           /\ bot_type = benchmark.request.bot_type
           /\ found_via_waio \in 1..3
                 => remaining_effort_ratio
                       = Some(RDiv(TabulatedRatio(found_via_waio),
                                   TabulatedModifier(benchmark.request.bot_type,
                                                     simulation_mode, found_attrs_map)))

-----------------------------------------------------------------------------
(* Properties of the shared browser *)

\* C23: under any interleaving of concurrent fetch_page calls for dynamic bots on one
\* BotFactory, the Playwright runtime is started and the browser is launched at most
\* once; a second call never starts a second runtime or browser while or after the
\* first initialization runs.
C23_PlaywrightStartedOnce ==
    op = "fetch"
        => /\ Cardinality(started.runtimes) <= 1
           /\ Cardinality(started.browsers) <= 1

====
